---- MODULE Spec2Model ----
(***************************************************************************)
(* Model of the animation core of the portfolio site:                      *)
(*   - the ripple collection of the app store (utils/store) and the        *)
(*     per-frame packing of it into the mercury shader's uniforms          *)
(*     (components/3D/MercurySurface.tsx, shaders/mercuryVertex.glsl);     *)
(*   - the Spring and Spring3D of utils/AnimationOrchestrator.ts;          *)
(*   - the ParticlePhysicsSystem of utils/constants.ts;                    *)
(*   - createAnimationLoop of utils/AnimationOrchestrator.ts;              *)
(*   - App's FPS monitoring effect and the FPSMonitor of utils/constants.ts.*)
(*                                                                         *)
(* Specifications.  Spec: the application (addRipple from handlers, the    *)
(* frame callback, the clock).  FairSpec: Spec with frames and clock fair. *)
(* StoreSpec: the store's ripple operations in any order.  SpringSpec: one *)
(* Spring under setTarget and update calls.  ConstructSpec: the same for a *)
(* Spring made from any configuration object.  FixedTargetSpec: a Spring   *)
(* whose target is set once.  SettleSpec: the same, updated by a render    *)
(* loop for ever.  VectorSpec: two Spring3D objects driven side by side.   *)
(* ParticleSpec: a ParticlePhysicsSystem under calls of its methods.       *)
(* LoopSpec: a createAnimationLoop loop under start, stop and frames.      *)
(* FpsSpec: App's FPS monitoring under mode changes, frames and unmount.   *)
(*                                                                         *)
(* Numbers.  Date.now() is an integer count of milliseconds.  Shader-side  *)
(* floats (seconds, strengths, coordinates) are fixed-point numbers with   *)
(* FScale units per 1.0.  Spring quantities are fixed-point with SScale    *)
(* units per 1.0, particle quantities with PScale units per 1.0; every     *)
(* arithmetic result is rounded to that grid.                              *)
(***************************************************************************)
EXTENDS Integers, Sequences, FiniteSets, TLC

VARIABLES
    now,               \* Date.now(), in ms
    ripples,           \* store: state.ripples
    nAdded,            \* number of addRipple calls so far (source of fresh ids)
    uTime,             \* uniform uTime
    uRipples,          \* uniform uRipples[10]
    uRippleStrengths,  \* uniform uRippleStrengths[10]
    uRippleTimes,      \* uniform uRippleTimes[10]
    frameNow,          \* the `now` read by the last useFrame callback
    packed,            \* the ripples the last frame wrote into slots, in slot order
    frameParity,       \* number of useFrame callbacks run so far, modulo 2
    spring,            \* a Spring: position, velocity, target, tension, friction, mass
    ret,               \* the value returned by the last Spring.update
    lastOp,            \* the last Spring method called: <<name, argument>>
    lastDt,            \* the local dt of the last Spring.update
    prevSpring,        \* the Spring's fields when the last method was entered
    nOps,              \* number of Spring method calls so far
    start,             \* the Spring's fields when its target was last set
    springs,           \* a Spring3D: its three axis springs
    twin,              \* a second Spring3D, driven alike on the Y and Z axes
    vecOp,             \* the last Spring3D method called: <<name, argument>>
    vecRet,            \* the value returned by the last Spring3D method
    axisRest,          \* what the axis springs returned to the last Spring3D.isAtRest
    nVecOps,           \* number of Spring3D method calls so far
    ps,                \* a ParticlePhysicsSystem: its fields
    prevPs,            \* the system's fields when the last method was entered
    psOp,              \* the last ParticlePhysicsSystem method called
    psRet,             \* what the last ParticlePhysicsSystem method returned
    psForces,          \* last update: the force each field added to each particle
    psMagnet,          \* last update: the magnetic pull added to each particle
    nPsOps,            \* number of ParticlePhysicsSystem method calls so far
    loop,              \* a createAnimationLoop closure and the browser's frame-callback list
    perfNow,           \* performance.now() of the loop's page, in 1/PerfUnit ms
    loopOp,            \* the last loop operation: "start", "stop", "frame" or "tick"
    callback,          \* the callback invocation of the last step, if any
    nLoopTicks,        \* number of display frames begun so far
    performanceMode,   \* store: state.settings.performanceMode
    app,               \* App: mounted, and what its FPS effect last ran with and captured
    animateFrames,     \* the browser's frame-callback list, for App's `animate` closures
    fpsMonitor,        \* the FPSMonitor singleton: its fields
    monitorNow,        \* performance.now() of App's page, in ms
    cleanedUp,         \* the FPS loops whose effect cleanup has run
    updatedBy,         \* the FPS loop that called fpsMonitor.update in the last step, or 0
    fpsOp,             \* the last operation on App's FPS monitoring
    nFpsTicks          \* number of display frames begun so far on App's page

rippleVars == <<now, ripples, nAdded, uTime, uRipples, uRippleStrengths,
                uRippleTimes, frameNow, packed, frameParity>>

springVars == <<spring, ret, lastOp, lastDt, prevSpring, nOps, start>>

vectorVars == <<springs, twin, vecOp, vecRet, axisRest, nVecOps>>

particleVars == <<ps, prevPs, psOp, psRet, psForces, psMagnet, nPsOps>>

loopVars == <<loop, perfNow, loopOp, callback, nLoopTicks>>

fpsVars == <<performanceMode, app, animateFrames, fpsMonitor, monitorNow,
             cleanedUp, updatedBy, fpsOp, nFpsTicks>>

vars == <<rippleVars, springVars, vectorVars, particleVars, loopVars, fpsVars>>

----------------------------------------------------------------------------
(* Bounds of the model *)

MaxAdds == 11            \* addRipple calls explored
MaxTicks == 4            \* clock advances explored
ClockStartEpochMs == 20000  \* Date.now() when the render clock starts

(* Program constants *)

MaxSlots == 10           \* slice(-10), new Array(10), uRipples[10]
ExpiryMs == 5000         \* clearExpiredRipples: now - r.time < 5000
maxRipples == 10         \* RIPPLE.maxRipples
FScale == 100            \* fixed-point units per 1.0 of a shader float
TickMs == 2500           \* granularity of the modelled wall clock

Min(a, b) == IF a < b THEN a ELSE b

Slots == 1..MaxSlots

(* The (position, strength) pairs addRipple is called with; coordinates and *)
(* strengths in FScale units: addRipple([0.5, 0.3], 1.0)                    *)
RippleInputs ==
    { [position |-> <<50, 30>>, strength |-> 100] }

----------------------------------------------------------------------------
(* Store: addRipple / clearExpiredRipples *)

\* Array.prototype.slice(-n): the last n elements
SliceLast(s, n) ==
    IF Len(s) <= n THEN s ELSE SubSeq(s, Len(s) - n + 1, Len(s))

\* variant: Array.prototype.slice(0, n), the first n elements
SliceFirst(s, n) ==
    IF Len(s) <= n THEN s ELSE SubSeq(s, 1, n)

\* variant: no truncation
KeepAll(s, n) == s

\* [...state.ripples, newRipple].slice(-10)
KeepLast(s, n) == SliceLast(s, n)

newRipple(position, strength) ==
    [id |-> nAdded + 1, position |-> position, strength |-> strength, time |-> now]

AddRippleResult(rs, r) == KeepLast(Append(rs, r), MaxSlots)

\* variant: <= in place of <
IsLiveInclusive(r, t) == t - r.time <= ExpiryMs

\* the filter predicate of clearExpiredRipples
IsLive(r, t) == t - r.time < ExpiryMs

RECURSIVE Filter(_, _)
Filter(s, t) ==
    IF s = <<>> THEN <<>>
    ELSE IF IsLive(Head(s), t) THEN <<Head(s)>> \o Filter(Tail(s), t)
         ELSE Filter(Tail(s), t)

AddRipple(position, strength) ==
    /\ nAdded < MaxAdds
    /\ ripples' = AddRippleResult(ripples, newRipple(position, strength))
    /\ nAdded' = nAdded + 1
    /\ UNCHANGED <<now, uTime, uRipples, uRippleStrengths, uRippleTimes, frameNow, packed, frameParity>>
    /\ UNCHANGED <<springVars, vectorVars, particleVars, loopVars, fpsVars>>

ClearExpiredRipples ==
    /\ ripples' = Filter(ripples, now)
    /\ UNCHANGED <<now, nAdded, uTime, uRipples, uRippleStrengths, uRippleTimes, frameNow, packed, frameParity>>
    /\ UNCHANGED <<springVars, vectorVars, particleVars, loopVars, fpsVars>>

----------------------------------------------------------------------------
(* MercurySurface: useFrame *)

\* a millisecond count as a shader float holding seconds (x / 1000)
MsToSeconds(ms) == (ms * FScale) \div 1000

\* state.clock.elapsedTime: seconds since the render clock was started
ElapsedTime(t) == MsToSeconds(t - ClockStartEpochMs)

\* the value written to uTime
FrameTime(t) == ElapsedTime(t)

\* variant: no reset
KeepArray(a, zero) == a

\* the "Reset arrays" loop
ResetArray(a, zero) == [i \in DOMAIN a |-> zero]

\* the packing filter: now - ripple.time < RIPPLE.maxRipples * 1000
PackFilter(r, t) == t - r.time < maxRipples * 1000

\* variant: the loop walking the store from its head
RECURSIVE PackLoopForward(_, _, _, _)
PackLoopForward(rs, i, t, acc) ==
    IF i > Len(rs) \/ Len(acc) >= MaxSlots THEN acc
    ELSE IF PackFilter(rs[i], t)
         THEN PackLoopForward(rs, i + 1, t, Append(acc, rs[i]))
         ELSE PackLoopForward(rs, i + 1, t, acc)

\* for (let i = ripples.length - 1; i >= 0 && activeCount < 10; i--)
RECURSIVE PackLoop(_, _, _, _)
PackLoop(rs, i, t, acc) ==
    IF i < 1 \/ Len(acc) >= MaxSlots THEN acc
    ELSE IF PackFilter(rs[i], t)
         THEN PackLoop(rs, i - 1, t, Append(acc, rs[i]))
         ELSE PackLoop(rs, i - 1, t, acc)

PackedForward(rs, t) == PackLoopForward(rs, 1, t, <<>>)

\* the ripples written to slots 0.., in slot order
Packed(rs, t) == PackLoop(rs, Len(rs), t, <<>>)

\* the writes values[0..activeCount-1] to slots 0..activeCount-1, made over
\* the reset array
Fill(a, zero, values) ==
    [i \in DOMAIN ResetArray(a, zero) |->
        IF i <= Len(values) THEN values[i] ELSE ResetArray(a, zero)[i]]

PositionOf(r) == r.position
StrengthOf(r) == r.strength
TimeOf(r) == MsToSeconds(r.time)

Frame ==
    /\ uTime' = FrameTime(now)
    /\ frameNow' = now
    /\ packed' = Packed(ripples, now)
    /\ uRipples' =
          Fill(uRipples, <<0, 0>>, [i \in DOMAIN packed' |-> PositionOf(packed'[i])])
    /\ uRippleStrengths' =
          Fill(uRippleStrengths, 0, [i \in DOMAIN packed' |-> StrengthOf(packed'[i])])
    /\ uRippleTimes' =
          Fill(uRippleTimes, 0, [i \in DOMAIN packed' |-> TimeOf(packed'[i])])
    /\ frameParity' = 1 - frameParity
    /\ UNCHANGED <<now, ripples, nAdded>>
    /\ UNCHANGED <<springVars, vectorVars, particleVars, loopVars, fpsVars>>

----------------------------------------------------------------------------
(* mercuryVertex.glsl: getDisplacedPosition, the ripple loop *)

\* variant: the upper bound alone
AgeGateUpperOnly(age) == age < 5 * FScale

\* if (rippleAge > 0.0 && rippleAge < 5.0)
AgeGate(age) == age > 0 /\ age < 5 * FScale

\* float rippleAge = uTime - uRippleTimes[i]
rippleAge(i) == uTime - uRippleTimes[i]

\* the slots whose calculateRipple term is added to rippleSum
ContributingSlots ==
    { i \in Slots : uRippleStrengths[i] > FScale \div 100 /\ AgeGate(rippleAge(i)) }

----------------------------------------------------------------------------
(* The wall clock *)

Tick ==
    /\ now < ClockStartEpochMs + MaxTicks * TickMs
    /\ now' = now + TickMs
    /\ UNCHANGED <<ripples, nAdded, uTime, uRipples, uRippleStrengths, uRippleTimes, frameNow, packed, frameParity>>
    /\ UNCHANGED <<springVars, vectorVars, particleVars, loopVars, fpsVars>>

----------------------------------------------------------------------------

InitRipples ==
    /\ now = ClockStartEpochMs
    /\ ripples = <<>>
    /\ nAdded = 0
    /\ uTime = 0
    /\ uRipples = [i \in Slots |-> <<0, 0>>]
    /\ uRippleStrengths = [i \in Slots |-> 0]
    /\ uRippleTimes = [i \in Slots |-> 0]
    /\ frameNow = ClockStartEpochMs
    /\ packed = <<>>
    /\ frameParity = 0

----------------------------------------------------------------------------
(* AnimationOrchestrator.ts: class Spring *)

MaxOps == 4              \* Spring method calls explored
SScale == 10000          \* fixed-point units per 1.0 of a spring quantity
DtScale == 1000          \* fixed-point units per second of a spring time step
MassScale == 10          \* fixed-point units per 1.0 of a mass
DtCapMs == 64            \* Math.min(deltaTime / 1000, 0.064)
FrameMs == 16            \* the delta of one animation frame at 60 fps, in ms

\* SPRING_CONFIGS presets (mass in MassScale units)
snappy == [tension |-> 400, friction |-> 30, mass |-> 10]
cardHover == [tension |-> 280, friction |-> 60, mass |-> 8]
camera == [tension |-> 120, friction |-> 40, mass |-> 15]
float == [tension |-> 50, friction |-> 20, mass |-> 20]
elastic == [tension |-> 300, friction |-> 10, mass |-> 5]
smooth == [tension |-> 100, friction |-> 26, mass |-> 10]

SpringConfigs == {snappy, camera, smooth}

\* SPRING_CONFIGS
Presets == {snappy, cardHover, camera, float, elastic, smooth}

\* SpringConfig objects a caller can pass besides the presets: the type
\* { tension: number; friction: number; mass: number } admits any numbers
massless == [tension |-> 400, friction |-> 30, mass |-> 0]
negativeMass == [tension |-> 400, friction |-> 30, mass |-> -10]
tensionless == [tension |-> 0, friction |-> 30, mass |-> 10]

ConstructorConfigs == SpringConfigs \cup {massless, negativeMass}

SettleConfigs == SpringConfigs \cup {tensionless}

InitialValues == {0, SScale}
TargetValues == {0, SScale, -SScale \div 2}
SettleTargets == TargetValues \cup {10 * SScale}
DeltaTimes == {-16, 0, 16, 33, 64, 65, 100, 1000}
NonNegativeDeltaTimes == { d \in DeltaTimes : d >= 0 }

\* isAtRest(threshold: number = 0.001)
DefaultThreshold == SScale \div 1000

Abs(n) == IF n < 0 THEN 0 - n ELSE n

\* n / d rounded to the nearest grid point
Round(n, d) ==
    IF d > 0 THEN (2 * n + d) \div (2 * d)
             ELSE (2 * (0 - n) - d) \div (2 * (0 - d))

\* a * b / d rounded to the nearest grid point, without forming a * b
MulDiv(a, b, d) ==
    IF d > 0 THEN (a \div d) * b + Round((a % d) * b, d)
             ELSE ((0 - a) \div (0 - d)) * b + Round(((0 - a) % (0 - d)) * b, 0 - d)

(* A Spring's fields.  position and velocity are JavaScript numbers: when  *)
(* `finite` is FALSE they are NaN or an infinity and their integer values   *)
(* carry no information.                                                    *)

\* constructor(initialValue, config)
NewSpring(initialValue, config) ==
    [position |-> initialValue, velocity |-> 0, target |-> initialValue,
     tension |-> config.tension, friction |-> config.friction, mass |-> config.mass,
     finite |-> TRUE]

\* variant: the velocity is cleared as well
SetTargetAndStop(s, value) == [s EXCEPT !.target = value, !.velocity = 0]

\* setTarget(target)
SetTargetResult(s, value) == [s EXCEPT !.target = value]

\* variant: no cap
SpringDtUnclamped(deltaTime) == Round(deltaTime * DtScale, 1000)

\* variant: whole seconds
SpringDtWholeSeconds(deltaTime) == (deltaTime \div 1000) * DtScale

\* const dt = Math.min(deltaTime / 1000, 0.064)
SpringDt(deltaTime) ==
    Min(Round(deltaTime * DtScale, 1000), Round(DtCapMs * DtScale, 1000))

\* variant: explicit Euler, the position step uses the velocity before the step
StepPositionOldVelocity(position, oldVelocity, newVelocity, dt) ==
    position + MulDiv(oldVelocity, dt, DtScale)

\* this.position += this.velocity * dt, after this.velocity += acceleration * dt
StepPosition(position, oldVelocity, newVelocity, dt) ==
    position + MulDiv(newVelocity, dt, DtScale)

\* update(deltaTime): the fields after the call.  A division by a zero mass
\* gives NaN or an infinity, and every later result is NaN or an infinity.
UpdateResult(s, deltaTime) ==
    LET dt == SpringDt(deltaTime)
        displacement == s.position - s.target
        springForce == (0 - s.tension) * displacement
        dampingForce == (0 - s.friction) * s.velocity
        acceleration == MulDiv(springForce + dampingForce, MassScale, s.mass)
        velocity == s.velocity + MulDiv(acceleration, dt, DtScale)
        position == StepPosition(s.position, s.velocity, velocity, dt)
    IN  IF s.mass = 0 \/ ~s.finite
        THEN [s EXCEPT !.velocity = 0, !.position = 0, !.finite = FALSE]
        ELSE [s EXCEPT !.velocity = velocity, !.position = position]

\* variant: at rest up to and including the threshold
IsAtRestInclusive(s, threshold) ==
    /\ s.finite
    /\ Abs(s.velocity) <= threshold
    /\ Abs(s.position - s.target) <= threshold

\* isAtRest(threshold); a comparison with NaN or an infinity is false
IsAtRest(s, threshold) ==
    /\ s.finite
    /\ Abs(s.velocity) < threshold
    /\ Abs(s.position - s.target) < threshold

\* the assignments of setTarget(value)
DoSetTarget(value) ==
    /\ spring' = SetTargetResult(spring, value)
    /\ start' = spring'
    /\ lastOp' = <<"setTarget", value>>
    /\ prevSpring' = spring
    /\ UNCHANGED <<ret, lastDt>>

\* the assignments of update(deltaTime)
DoUpdate(deltaTime) ==
    /\ spring' = UpdateResult(spring, deltaTime)
    /\ ret' = spring'.position
    /\ lastDt' = SpringDt(deltaTime)
    /\ lastOp' = <<"update", deltaTime>>
    /\ prevSpring' = spring
    /\ UNCHANGED start

SpringSetTarget(value) ==
    /\ nOps < MaxOps
    /\ DoSetTarget(value)
    /\ nOps' = nOps + 1
    /\ UNCHANGED <<rippleVars, vectorVars, particleVars, loopVars, fpsVars>>

SpringUpdate(deltaTime) ==
    /\ nOps < MaxOps
    /\ DoUpdate(deltaTime)
    /\ nOps' = nOps + 1
    /\ UNCHANGED <<rippleVars, vectorVars, particleVars, loopVars, fpsVars>>

InitSpringWith(initialValue, config) ==
    /\ spring = NewSpring(initialValue, config)
    /\ ret = initialValue
    /\ lastOp = <<"new", initialValue>>
    /\ lastDt = 0
    /\ prevSpring = spring
    /\ nOps = 0
    /\ start = spring

\* new Spring(): initialValue = 0, config = { tension: 400, friction: 30, mass: 1 }
InitSpringDefault == InitSpringWith(0, snappy)

InitSpring ==
    \E v \in InitialValues : \E c \in SpringConfigs : InitSpringWith(v, c)

----------------------------------------------------------------------------
(* AnimationOrchestrator.ts: class Spring3D *)

MaxVecOps == 3           \* Spring3D method calls explored

Axes == 1..3

\* the configurations CardScene.tsx constructs its Spring3D objects with
VecConfigs == {smooth, camera}

VecInitialValues == { <<0, 0, 0>>, <<SScale, 0, SScale>> }
VecTargets == { <<0, 0, 0>>, <<SScale, 0, 0>>, <<0, SScale, -SScale \div 2>> }
VecDeltaTimes == {16, 64}
VecThresholds == {DefaultThreshold, SScale}

\* the X components the second system is given in place of the first's
TwinX == {0, SScale \div 2}

\* constructor(initialValue, config)
NewSpring3D(initialValue, config) ==
    << NewSpring(initialValue[1], config),
       NewSpring(initialValue[2], config),
       NewSpring(initialValue[3], config) >>

\* setTarget(target)
SetTarget3D(ss, target) ==
    << SetTargetResult(ss[1], target[1]),
       SetTargetResult(ss[2], target[2]),
       SetTargetResult(ss[3], target[3]) >>

\* variant: the Y and Z springs are pulled toward the X target
Update3DCoupled(ss, deltaTime) ==
    << UpdateResult(ss[1], deltaTime),
       UpdateResult([ss[2] EXCEPT !.target = ss[1].target], deltaTime),
       UpdateResult([ss[3] EXCEPT !.target = ss[1].target], deltaTime) >>

\* update(deltaTime): the three springs after the call
Update3D(ss, deltaTime) ==
    << UpdateResult(ss[1], deltaTime),
       UpdateResult(ss[2], deltaTime),
       UpdateResult(ss[3], deltaTime) >>

\* the tuple update and getValue return
Values3D(ss) == << ss[1].position, ss[2].position, ss[3].position >>

\* what each s.isAtRest(threshold) returns inside Spring3D.isAtRest
AxisRest(ss, threshold) == [k \in Axes |-> IsAtRest(ss[k], threshold)]

\* this.springs.every(...)
EveryAxis(rests) == \A k \in Axes : rests[k]

ReplaceX(v, x) == << x, v[2], v[3] >>

VecSetTarget(target, x) ==
    /\ nVecOps < MaxVecOps
    /\ springs' = SetTarget3D(springs, target)
    /\ twin' = SetTarget3D(twin, ReplaceX(target, x))
    /\ vecOp' = <<"setTarget", target>>
    /\ nVecOps' = nVecOps + 1
    /\ UNCHANGED <<vecRet, axisRest>>
    /\ UNCHANGED <<rippleVars, springVars, particleVars, loopVars, fpsVars>>

VecUpdate(deltaTime) ==
    /\ nVecOps < MaxVecOps
    /\ springs' = Update3D(springs, deltaTime)
    /\ twin' = Update3D(twin, deltaTime)
    /\ vecRet' = Values3D(springs')
    /\ vecOp' = <<"update", deltaTime>>
    /\ nVecOps' = nVecOps + 1
    /\ UNCHANGED axisRest
    /\ UNCHANGED <<rippleVars, springVars, particleVars, loopVars, fpsVars>>

VecIsAtRest(threshold) ==
    /\ nVecOps < MaxVecOps
    /\ axisRest' = AxisRest(springs, threshold)
    /\ vecRet' = EveryAxis(axisRest')
    /\ vecOp' = <<"isAtRest", threshold>>
    /\ nVecOps' = nVecOps + 1
    /\ UNCHANGED <<springs, twin>>
    /\ UNCHANGED <<rippleVars, springVars, particleVars, loopVars, fpsVars>>

InitVectorWith(initialValue, x, config) ==
    /\ springs = NewSpring3D(initialValue, config)
    /\ twin = NewSpring3D(ReplaceX(initialValue, x), config)
    /\ vecOp = <<"new", initialValue>>
    /\ vecRet = initialValue
    /\ axisRest = [k \in Axes |-> TRUE]
    /\ nVecOps = 0

\* new Spring3D(): initialValue = [0, 0, 0], config = SPRING_CONFIGS.snappy
InitVectorDefault == InitVectorWith(<<0, 0, 0>>, 0, snappy)

InitVector ==
    \E v \in VecInitialValues : \E x \in TwinX : \E c \in VecConfigs :
        InitVectorWith(v, x, c)

----------------------------------------------------------------------------
(* constants.ts: class ParticlePhysicsSystem *)

MaxPsOps == 3            \* ParticlePhysicsSystem method calls explored
PScale == 1000           \* fixed-point units per 1.0 of a particle quantity
PDtScale == 1000         \* fixed-point units per second of a particle time step
DragScale == 100         \* fixed-point units per 1.0 of the drag coefficient
PDtCapMs == 33           \* Math.min(deltaTime, 0.033)

\* the epsilon of distSq = dx * dx + dy * dy + dz * dz + 0.001
EpsSq == (PScale * PScale) \div 1000

\* this.gridSize = 1.0
GridSize == PScale

Zero3 == <<0, 0, 0>>

\* ParticleConfig objects (count, magneticStrength, dragCoefficient, gravity)
calmPair == [count |-> 2, magneticStrength |-> 0, dragCoefficient |-> 0,
             gravity |-> Zero3, size |-> 50]
heavyPair == [count |-> 2, magneticStrength |-> 500, dragCoefficient |-> 50,
              gravity |-> <<0, -1000, 0>>, size |-> 50]
heavyOne == [count |-> 1, magneticStrength |-> 500, dragCoefficient |-> 50,
             gravity |-> <<0, -1000, 0>>, size |-> 50]

ParticleConfigs == {calmPair, heavyPair, heavyOne}

(* The draws of Math.random() in one initializeParticles call, as the      *)
(* position and velocity they give each particle.                          *)
Seeds == 1..3

RandomPositions(seed) ==
    CASE seed = 1 -> << Zero3, <<100, 0, 0>> >>
      [] seed = 2 -> << <<10, 0, 0>>, <<-300, 400, 0>> >>
      [] OTHER    -> << <<1000, 0, 0>>, <<0, 0, 1500>> >>

RandomVelocities(seed) ==
    CASE seed = 2 -> << <<40, 0, -40>>, Zero3 >>
      [] OTHER    -> << Zero3, Zero3 >>

\* ForceField objects
repelField == [type |-> "repel", position |-> Zero3, strength |-> 1000, radius |-> 1000]
attractField == [type |-> "attract", position |-> <<1000, 0, 0>>, strength |-> 500, radius |-> 2000]
vortexField == [type |-> "vortex", position |-> <<-1000, 0, 0>>, strength |-> 1000, radius |-> 3000]

ForceFields == {repelField, attractField, vortexField}

\* arrays passed to setTargetPositions: 3 and 6 numbers
TargetArrays == { <<0, 500, 0>>, <<0, 0, 0, 500, 0, 0>> }

PsDeltaTimes == {16, 33, 100}

SplashPoints == { <<0, 500, 0>> }
SplashCounts == {2}

RECURSIVE SqrtBetween(_, _, _)
\* the integer r in lo..hi-1 with r * r <= n < (r + 1) * (r + 1)
SqrtBetween(n, lo, hi) ==
    IF hi - lo <= 1 THEN lo
    ELSE LET mid == (lo + hi) \div 2
         IN  IF mid * mid <= n THEN SqrtBetween(n, mid, hi)
                               ELSE SqrtBetween(n, lo, mid)

\* Math.sqrt(n), rounded to the nearest grid point
Sqrt(n) ==
    LET r == SqrtBetween(n, 0, Min(n + 1, 46340))
    IN  IF n - r * r > r THEN r + 1 ELSE r

RECURSIVE Flatten(_)
\* the Float32Array holding the given triples
Flatten(triples) ==
    IF triples = <<>> THEN <<>> ELSE Head(triples) \o Flatten(Tail(triples))

\* elements i3, i3 + 1, i3 + 2 of an array, for particle i (counted from 1)
Triple(a, i) == << a[3 * i - 2], a[3 * i - 1], a[3 * i] >>

Particles(p) == 1..p.count

Add3(a, b) == << a[1] + b[1], a[2] + b[2], a[3] + b[3] >>
Sub3(a, b) == << a[1] - b[1], a[2] - b[2], a[3] - b[3] >>
Scale3(a, n, d) == << MulDiv(a[1], n, d), MulDiv(a[2], n, d), MulDiv(a[3], n, d) >>
NormSq(a) == a[1] * a[1] + a[2] * a[2] + a[3] * a[3]

\* Math.sqrt(dx * dx + dy * dy + dz * dz + 0.001)
GuardedDist(d) == Sqrt(NormSq(d) + EpsSq)

\* initializeParticles(): every array is written in place
InitializeParticles(p, seed) ==
    [p EXCEPT
       !.positions = Flatten(SubSeq(RandomPositions(seed), 1, p.count)),
       !.velocities = Flatten(SubSeq(RandomVelocities(seed), 1, p.count)),
       !.colors = [k \in 1..(3 * p.count) |-> 500 + 10 * seed],
       !.sizes = [k \in 1..p.count |-> MulDiv(p.config.size, 500 + 100 * seed, PScale)],
       !.lifetimes = [k \in 1..p.count |-> PScale]]

(* The identity of the five Float32Array objects is the number of the      *)
(* allocation that made them; `allocated` counts the arrays made so far.    *)
ConstructedRefs ==
    [positions |-> 1, velocities |-> 2, colors |-> 3, sizes |-> 4, lifetimes |-> 5]

\* constructor(config)
NewParticleSystem(config, seed) ==
    InitializeParticles(
        [count |-> config.count, config |-> config, forceFields |-> <<>>,
         grid |-> <<>>, positions |-> <<>>, velocities |-> <<>>, colors |-> <<>>,
         sizes |-> <<>>, lifetimes |-> <<>>, targetPositions |-> <<>>,
         hasTargets |-> FALSE, refs |-> ConstructedRefs, allocated |-> 5],
        seed)

\* variant: any array is stored
SetTargetsUnchecked(p, targets) ==
    [p EXCEPT !.targetPositions = targets, !.hasTargets = TRUE]

\* setTargetPositions(targets)
SetTargetsResult(p, targets) ==
    IF Len(targets) # p.count * 3
    THEN p
    ELSE [p EXCEPT !.targetPositions = targets, !.hasTargets = TRUE]

\* addForceField(field)
AddFieldResult(p, field) == [p EXCEPT !.forceFields = Append(@, field)]

\* clearForceFields()
ClearFieldsResult(p) == [p EXCEPT !.forceFields = <<>>]

\* variant: the field acts at any distance
InsideAlways(dist, radius) == TRUE

\* if (dist < field.radius)
InsideField(dist, radius) == dist < radius

\* const strength = field.strength * (1 - dist / field.radius)
Falloff(strength, dist, radius) == MulDiv(strength, radius - dist, radius)

\* what one force field adds to (fx, fy, fz) for a particle at position pos,
\* and the local `strength` it computed
FieldEffect(field, pos) ==
    LET d == Sub3(field.position, pos)
        dist == GuardedDist(d)
    IN  IF InsideField(dist, field.radius)
        THEN LET strength == Falloff(field.strength, dist, field.radius)
             IN  [inside |-> TRUE, dist |-> dist, strength |-> strength,
                  force |->
                    CASE field.type = "attract" -> Scale3(d, strength, dist)
                      [] field.type = "repel" -> Sub3(Zero3, Scale3(d, strength, dist))
                      [] OTHER -> << MulDiv(0 - d[2], strength, PScale),
                                     MulDiv(d[1], strength, PScale), 0 >>]
        ELSE [inside |-> FALSE, dist |-> dist, strength |-> 0, force |-> Zero3]

RECURSIVE SumForces(_, _)
SumForces(effects, k) ==
    IF k = 0 THEN Zero3 ELSE Add3(SumForces(effects, k - 1), effects[k].force)

\* variant: the pull is the offset itself, not its direction
MagneticForceUnnormalised(p, i) ==
    IF p.hasTargets /\ p.config.magneticStrength > 0
    THEN LET d == Sub3(Triple(p.targetPositions, i), Triple(p.positions, i))
         IN  Scale3(d, p.config.magneticStrength, PScale)
    ELSE Zero3

\* the magnetic attraction toward the particle's target
MagneticForce(p, i) ==
    IF p.hasTargets /\ p.config.magneticStrength > 0
    THEN LET d == Sub3(Triple(p.targetPositions, i), Triple(p.positions, i))
         IN  Scale3(d, p.config.magneticStrength, GuardedDist(d))
    ELSE Zero3

\* variant: no cap
ParticleDtUnclamped(deltaTime) == deltaTime

\* const dt = Math.min(deltaTime, 0.033)
ParticleDt(deltaTime) == Min(deltaTime, PDtCapMs)

\* the effects of the force fields on particle i
FieldEffects(p, i) ==
    [j \in 1..Len(p.forceFields) |-> FieldEffect(p.forceFields[j], Triple(p.positions, i))]

\* variant: the drag is taken from the first particle's velocity
ParticleStepCoupled(p, i, dt) ==
    LET effects == FieldEffects(p, i)
        v == Triple(p.velocities, i)
        driven == Add3(Add3(p.config.gravity, MagneticForce(p, i)),
                       SumForces(effects, Len(effects)))
        f == Sub3(driven, Scale3(Triple(p.velocities, 1), p.config.dragCoefficient, DragScale))
        velocity == Add3(v, Scale3(f, dt, PDtScale))
        position == Add3(Triple(p.positions, i), Scale3(velocity, dt, PDtScale))
    IN  [velocity |-> velocity, position |-> position]

\* one iteration of the particle loop of update: velocity and position of i
ParticleStep(p, i, dt) ==
    LET effects == FieldEffects(p, i)
        v == Triple(p.velocities, i)
        driven == Add3(Add3(p.config.gravity, MagneticForce(p, i)),
                       SumForces(effects, Len(effects)))
        f == Sub3(driven, Scale3(v, p.config.dragCoefficient, DragScale))
        velocity == Add3(v, Scale3(f, dt, PDtScale))
        position == Add3(Triple(p.positions, i), Scale3(velocity, dt, PDtScale))
    IN  [velocity |-> velocity, position |-> position]

\* getGridKey(x, y, z)
GridKey(pos) == << pos[1] \div GridSize, pos[2] \div GridSize, pos[3] \div GridSize >>

RECURSIVE GridInsert(_, _, _)
\* the grid after particle i is pushed to the cell of the given key
GridInsert(grid, key, i) ==
    IF grid = <<>> THEN << [key |-> key, cell |-> <<i>>] >>
    ELSE IF Head(grid).key = key
         THEN << [key |-> key, cell |-> Append(Head(grid).cell, i)] >> \o Tail(grid)
         ELSE << Head(grid) >> \o GridInsert(Tail(grid), key, i)

\* variant: the cells of the last frame are kept
KeptGrid(grid) == grid

\* this.grid.clear()
ClearedGrid(grid) == <<>>

RECURSIVE FillGrid(_, _, _)
\* the grid after the first k particles are inserted
FillGrid(grid, positions, k) ==
    IF k = 0 THEN grid
    ELSE GridInsert(FillGrid(grid, positions, k - 1), GridKey(Triple(positions, k)), k)

\* update(deltaTime): the fields after the call
PsUpdateResult(p, deltaTime) ==
    LET dt == ParticleDt(deltaTime)
        steps == [i \in Particles(p) |-> ParticleStep(p, i, dt)]
        positions == Flatten([i \in Particles(p) |-> steps[i].position])
    IN  [p EXCEPT !.positions = positions,
                  !.velocities = Flatten([i \in Particles(p) |-> steps[i].velocity]),
                  !.grid = FillGrid(ClearedGrid(p.grid), positions, p.count)]

\* variant: reset() makes new arrays
ResetReallocating(p, seed) ==
    [InitializeParticles(p, seed) EXCEPT
       !.targetPositions = <<>>, !.hasTargets = FALSE, !.forceFields = <<>>,
       !.refs = [positions |-> p.allocated + 1, velocities |-> p.allocated + 2,
                 colors |-> p.allocated + 3, sizes |-> p.allocated + 4,
                 lifetimes |-> p.allocated + 5],
       !.allocated = p.allocated + 5]

\* variant: reset() keeps the targets and the force fields
ResetParticlesOnly(p, seed) == InitializeParticles(p, seed)

\* reset()
ResetResult(p, seed) ==
    [InitializeParticles(p, seed) EXCEPT
       !.targetPositions = <<>>, !.hasTargets = FALSE, !.forceFields = <<>>]

\* createSplash(impactPoint, count, force): the array it returns
SplashArray(p, impactPoint, count) ==
    [ref |-> p.allocated + 1, data |-> Flatten([i \in 1..count |-> impactPoint])]

\* getCount()
GetCount(p) == p.count

PsCall(op) ==
    /\ nPsOps < MaxPsOps
    /\ psOp' = op
    /\ prevPs' = ps
    /\ nPsOps' = nPsOps + 1
    /\ UNCHANGED <<rippleVars, springVars, vectorVars, loopVars, fpsVars>>

PsUpdate(deltaTime) ==
    /\ PsCall(<<"update", deltaTime>>)
    /\ ps' = PsUpdateResult(ps, deltaTime)
    /\ psForces' = [i \in Particles(ps) |-> FieldEffects(ps, i)]
    /\ psMagnet' = [i \in Particles(ps) |-> MagneticForce(ps, i)]
    /\ UNCHANGED psRet

PsReset(seed) ==
    /\ PsCall(<<"reset", seed>>)
    /\ ps' = ResetResult(ps, seed)
    /\ UNCHANGED <<psRet, psForces, psMagnet>>

PsAddForceField(field) ==
    /\ PsCall(<<"addForceField", field>>)
    /\ ps' = AddFieldResult(ps, field)
    /\ UNCHANGED <<psRet, psForces, psMagnet>>

PsClearForceFields ==
    /\ PsCall(<<"clearForceFields">>)
    /\ ps' = ClearFieldsResult(ps)
    /\ UNCHANGED <<psRet, psForces, psMagnet>>

PsSetTargetPositions(targets) ==
    /\ PsCall(<<"setTargetPositions", targets>>)
    /\ ps' = SetTargetsResult(ps, targets)
    /\ UNCHANGED <<psRet, psForces, psMagnet>>

PsCreateSplash(impactPoint, count) ==
    /\ PsCall(<<"createSplash", impactPoint, count>>)
    /\ psRet' = SplashArray(ps, impactPoint, count)
    /\ ps' = [ps EXCEPT !.allocated = @ + 1]
    /\ UNCHANGED <<psForces, psMagnet>>

InitParticlesWith(config, seed) ==
    /\ ps = NewParticleSystem(config, seed)
    /\ prevPs = ps
    /\ psOp = <<"new">>
    /\ psRet = [ref |-> 0, data |-> <<>>]
    /\ psForces = [i \in Particles(ps) |-> <<>>]
    /\ psMagnet = [i \in Particles(ps) |-> Zero3]
    /\ nPsOps = 0

InitParticlesDefault == InitParticlesWith(calmPair, 1)

InitParticles ==
    \E c \in ParticleConfigs : \E seed \in Seeds : InitParticlesWith(c, seed)

----------------------------------------------------------------------------
(* createAnimationLoop (utils/AnimationOrchestrator.ts).  The record `loop` *)
(* holds the closure's variables animationFrameId (0 for null), lastTime    *)
(* and interval, and the page's list of animation-frame callbacks that were *)
(* requested for `loop`: pending are the handles not yet run or cancelled,  *)
(* runnable those of them the current display frame runs, nextId the handle *)
(* the next requestAnimationFrame returns.  stopped, afterStop and          *)
(* maxPending are history: whether a stop() has returned with no start()    *)
(* since, the handles pending when the last stop() returned, and the most   *)
(* handles ever pending at once.  Time is counted in 1/PerfUnit ms, so that *)
(* 1000 / 60 is a whole number.                                             *)

MaxRequests == 5          \* requestAnimationFrame calls explored
MaxLoopTicks == 4         \* display frames explored

PerfUnit == 3

LoopRates == {60, 30}

Interval(fps) == (1000 * PerfUnit) \div fps

DisplayFrames == {25, 50}

TimestampLags == {0, 6}

CallbackBodies ==
    { <<>>, <<"stop">>, <<"start">>, <<"stop", "start">>, <<"start", "stop">>,
      <<"stop", "stop">>, <<"start", "start">> }

NoCallback == [invoked |-> FALSE, deltaTime |-> 0, stopped |-> FALSE, body |-> <<>>]

Max(a, b) == IF a > b THEN a ELSE b

NewAnimationLoop(fps) ==
    [animationFrameId |-> 0, lastTime |-> 0, interval |-> Interval(fps),
     pending |-> {}, runnable |-> {}, nextId |-> 1,
     stopped |-> FALSE, afterStop |-> {}, maxPending |-> 0]

RequestAnimationFrame(l) ==
    [l EXCEPT !.pending = @ \cup {l.nextId},
              !.nextId = @ + 1,
              !.maxPending = Max(@, Cardinality(l.pending \cup {l.nextId}))]

CancelAnimationFrame(l, handle) == [l EXCEPT !.pending = @ \ {handle}]

StartUnguarded(l, t) ==
    [RequestAnimationFrame(l) EXCEPT !.lastTime = t,
                                     !.animationFrameId = l.nextId,
                                     !.stopped = FALSE]

StartResult(l, t) ==
    IF l.animationFrameId = 0
    THEN [RequestAnimationFrame(l) EXCEPT !.lastTime = t,
                                          !.animationFrameId = l.nextId,
                                          !.stopped = FALSE]
    ELSE [l EXCEPT !.stopped = FALSE]

StopResult(l) ==
    LET after == IF l.animationFrameId # 0
                 THEN [CancelAnimationFrame(l, l.animationFrameId)
                          EXCEPT !.animationFrameId = 0]
                 ELSE l
    IN  [after EXCEPT !.stopped = TRUE, !.afterStop = after.pending]

RECURSIVE CallbackResult(_, _, _)
CallbackResult(l, body, t) ==
    IF body = <<>> THEN l
    ELSE CallbackResult(IF Head(body) = "start" THEN StartResult(l, t) ELSE StopResult(l),
                        Tail(body), t)

CallbackInvoked(l, currentTime) == currentTime - l.lastTime >= l.interval

LoopResult(l, handle, currentTime, t, body) ==
    LET taken == [l EXCEPT !.pending = @ \ {handle}, !.runnable = @ \ {handle}]
        requested == [RequestAnimationFrame(taken) EXCEPT !.animationFrameId = taken.nextId]
        deltaTime == currentTime - l.lastTime
    IN  IF CallbackInvoked(l, currentTime)
        THEN CallbackResult(
                 [requested EXCEPT !.lastTime = currentTime - (deltaTime % l.interval)],
                 body, t)
        ELSE requested

LoopStart ==
    /\ loop.nextId <= MaxRequests
    /\ loop' = StartResult(loop, perfNow)
    /\ loopOp' = "start"
    /\ callback' = NoCallback
    /\ UNCHANGED <<perfNow, nLoopTicks>>
    /\ UNCHANGED <<rippleVars, springVars, vectorVars, particleVars, fpsVars>>

LoopStop ==
    /\ loop' = StopResult(loop)
    /\ loopOp' = "stop"
    /\ callback' = NoCallback
    /\ UNCHANGED <<perfNow, nLoopTicks>>
    /\ UNCHANGED <<rippleVars, springVars, vectorVars, particleVars, fpsVars>>

(* The display begins a frame: time has passed, and the callbacks pending   *)
(* now are the ones this frame runs.                                        *)
LoopTick(elapsed) ==
    /\ nLoopTicks < MaxLoopTicks
    /\ nLoopTicks' = nLoopTicks + 1
    /\ perfNow' = perfNow + elapsed
    /\ loop' = [loop EXCEPT !.runnable = loop.pending]
    /\ loopOp' = "tick"
    /\ callback' = NoCallback
    /\ UNCHANGED <<rippleVars, springVars, vectorVars, particleVars, fpsVars>>

(* The frame runs `loop` with the frame's timestamp; the callback calls     *)
(* start and stop as its body says.                                         *)
LoopFrame(lag, body) ==
    /\ loop.nextId <= MaxRequests
    /\ lag <= perfNow
    /\ \E handle \in loop.runnable \cap loop.pending :
          LET currentTime == perfNow - lag
          IN  /\ loop' = LoopResult(loop, handle, currentTime, perfNow, body)
              /\ callback' = IF CallbackInvoked(loop, currentTime)
                             THEN [invoked |-> TRUE,
                                   deltaTime |-> currentTime - loop.lastTime,
                                   stopped |-> loop.stopped,
                                   body |-> body]
                             ELSE NoCallback
    /\ loopOp' = "frame"
    /\ UNCHANGED <<perfNow, nLoopTicks>>
    /\ UNCHANGED <<rippleVars, springVars, vectorVars, particleVars, fpsVars>>

InitLoopWith(fps) ==
    /\ loop = NewAnimationLoop(fps)
    /\ perfNow = 0
    /\ loopOp = "new"
    /\ callback = NoCallback
    /\ nLoopTicks = 0

InitLoopDefault == InitLoopWith(60)

InitLoop == \E fps \in LoopRates : InitLoopWith(fps)

----------------------------------------------------------------------------
(* App's FPS monitoring effect and the FPSMonitor singleton                 *)
(* (utils/constants.ts).  `app` holds whether App is mounted, the           *)
(* performanceMode its effect last ran with, the frameId its cleanup        *)
(* captured (0 when the effect returned no cleanup) and the number of the   *)
(* loop that effect run started.  `animateFrames` is the page's list of     *)
(* animation-frame callbacks requested for `animate` closures: a pending    *)
(* entry is a handle with the number of the loop whose closure it runs.     *)
(* FPS values are fixed-point with FpsScale units per frame per second;     *)
(* 1000 / 0 is Infinity, a value with finite = FALSE.                       *)

MaxFpsRequests == 5       \* requestAnimationFrame calls explored
MaxFpsTicks == 3          \* display frames explored

FpsScale == 10

FramesKept == 60          \* if (this.frames.length > 60)
LowFps == 30              \* this.currentFPS < 30
AdjustCooldownMs == 5000  \* this.adjustCooldown = 5000

Modes == {"high", "medium", "low"}

FrameTimes == {16, 50}

Finite(v) == [finite |-> TRUE, value |-> v]

Infinity == [finite |-> FALSE, value |-> 0]

NewFPSMonitor(t) ==
    [frames |-> <<>>, lastTime |-> t, currentFPS |-> Finite(60 * FpsScale),
     autoAdjust |-> TRUE, adjustCooldown |-> 0]

RECURSIVE SumFps(_)
SumFps(frames) == IF frames = <<>> THEN 0 ELSE Head(frames).value + SumFps(Tail(frames))

Average(frames) ==
    IF \E n \in DOMAIN frames : ~frames[n].finite
    THEN Infinity
    ELSE Finite(Round(SumFps(frames), Len(frames)))

Below(fps, limit) == fps.finite /\ fps.value < limit * FpsScale

(* checkPerformance: the monitor's fields and the store's mode afterwards *)
CheckPerformance(mon, mode) ==
    IF Below(mon.currentFPS, LowFps) /\ mode # "low"
    THEN [monitor |-> [mon EXCEPT !.adjustCooldown = AdjustCooldownMs],
          mode |-> IF mode = "high" THEN "medium" ELSE "low"]
    ELSE [monitor |-> mon, mode |-> mode]

(* update at performance.now() = t *)
MonitorUpdate(mon, mode, t) ==
    LET delta == t - mon.lastTime
        fps == IF delta = 0 THEN Infinity ELSE Finite(Round(1000 * FpsScale, delta))
        pushed == Append(mon.frames, fps)
        frames == IF Len(pushed) > FramesKept THEN Tail(pushed) ELSE pushed
        averaged == [mon EXCEPT !.lastTime = t, !.frames = frames,
                                !.currentFPS = Average(frames)]
        checked == IF averaged.autoAdjust /\ averaged.adjustCooldown <= 0
                   THEN CheckPerformance(averaged, mode)
                   ELSE [monitor |-> averaged, mode |-> mode]
    IN  [checked EXCEPT !.monitor.adjustCooldown = IF @ > 0 THEN @ - delta ELSE @]

RequestAnimate(list, loopNo) ==
    [list EXCEPT !.pending = @ \cup {[id |-> list.nextId, loopNo |-> loopNo]},
                 !.nextId = @ + 1]

CancelAnimate(list, handle) ==
    [list EXCEPT !.pending = { r \in @ : r.id # handle }]

(* the cleanup the effect returned, if any: () => cancelAnimationFrame(frameId) *)
Cleanup(a, list) == IF a.frameId # 0 THEN CancelAnimate(list, a.frameId) ELSE list

(* the effect body, run with the store's mode *)
EffectApp(a, list, mode) ==
    IF mode = "high"
    THEN [a EXCEPT !.renderedMode = mode, !.frameId = list.nextId, !.loopNo = @ + 1]
    ELSE [a EXCEPT !.renderedMode = mode, !.frameId = 0]

EffectFrames(a, list, mode) ==
    IF mode = "high" THEN RequestAnimate(list, a.loopNo + 1) ELSE list

(* The settings panel stores another performance mode. *)
UpdateSettings(mode) ==
    /\ mode # performanceMode
    /\ performanceMode' = mode
    /\ updatedBy' = 0
    /\ fpsOp' = "updateSettings"
    /\ UNCHANGED <<app, animateFrames, fpsMonitor, monitorNow, cleanedUp, nFpsTicks>>
    /\ UNCHANGED <<rippleVars, springVars, vectorVars, particleVars, loopVars>>

(* React re-renders App after the mode changed: the cleanup of the last    *)
(* effect run, then the effect.                                            *)
Commit ==
    /\ app.mounted
    /\ app.renderedMode # performanceMode
    /\ animateFrames.nextId <= MaxFpsRequests
    /\ animateFrames' = EffectFrames(app, Cleanup(app, animateFrames), performanceMode)
    /\ app' = EffectApp(app, animateFrames, performanceMode)
    /\ cleanedUp' = IF app.frameId # 0 THEN cleanedUp \cup {app.loopNo} ELSE cleanedUp
    /\ updatedBy' = 0
    /\ fpsOp' = "commit"
    /\ UNCHANGED <<performanceMode, fpsMonitor, monitorNow, nFpsTicks>>
    /\ UNCHANGED <<rippleVars, springVars, vectorVars, particleVars, loopVars>>

Unmount ==
    /\ app.mounted
    /\ animateFrames' = Cleanup(app, animateFrames)
    /\ app' = [app EXCEPT !.mounted = FALSE, !.frameId = 0]
    /\ cleanedUp' = IF app.frameId # 0 THEN cleanedUp \cup {app.loopNo} ELSE cleanedUp
    /\ updatedBy' = 0
    /\ fpsOp' = "unmount"
    /\ UNCHANGED <<performanceMode, fpsMonitor, monitorNow, nFpsTicks>>
    /\ UNCHANGED <<rippleVars, springVars, vectorVars, particleVars, loopVars>>

(* The display begins a frame. *)
FpsTick(elapsed) ==
    /\ nFpsTicks < MaxFpsTicks
    /\ nFpsTicks' = nFpsTicks + 1
    /\ monitorNow' = monitorNow + elapsed
    /\ animateFrames' = [animateFrames EXCEPT !.runnable = { r.id : r \in animateFrames.pending }]
    /\ updatedBy' = 0
    /\ fpsOp' = "tick"
    /\ UNCHANGED <<performanceMode, app, fpsMonitor, cleanedUp>>
    /\ UNCHANGED <<rippleVars, springVars, vectorVars, particleVars, loopVars>>

(* The frame runs an `animate` closure: fpsMonitor.update(), then          *)
(* requestAnimationFrame(animate), whose handle nobody keeps.              *)
Animate ==
    /\ animateFrames.nextId <= MaxFpsRequests
    /\ \E r \in animateFrames.pending :
          /\ r.id \in animateFrames.runnable
          /\ LET updated == MonitorUpdate(fpsMonitor, performanceMode, monitorNow)
                 taken == [animateFrames EXCEPT !.pending = @ \ {r},
                                                !.runnable = @ \ {r.id}]
             IN  /\ fpsMonitor' = updated.monitor
                 /\ performanceMode' = updated.mode
                 /\ animateFrames' = RequestAnimate(taken, r.loopNo)
                 /\ updatedBy' = r.loopNo
    /\ fpsOp' = "animate"
    /\ UNCHANGED <<app, monitorNow, cleanedUp, nFpsTicks>>
    /\ UNCHANGED <<rippleVars, springVars, vectorVars, particleVars, loopVars>>

(* App mounted with the store's mode: its effect has run once. *)
InitFpsWith(mode) ==
    LET unmounted == [mounted |-> TRUE, renderedMode |-> mode, frameId |-> 0, loopNo |-> 0]
        empty == [pending |-> {}, runnable |-> {}, nextId |-> 1]
    IN  /\ performanceMode = mode
        /\ app = EffectApp(unmounted, empty, mode)
        /\ animateFrames = EffectFrames(unmounted, empty, mode)
        /\ fpsMonitor = NewFPSMonitor(0)
        /\ monitorNow = 0
        /\ cleanedUp = {}
        /\ updatedBy = 0
        /\ fpsOp = "mount"
        /\ nFpsTicks = 0

InitFpsDefault == InitFpsWith("high")

InitFps == \E mode \in Modes : InitFpsWith(mode)

----------------------------------------------------------------------------

Init ==
    /\ InitRipples /\ InitSpringDefault /\ InitVectorDefault /\ InitParticlesDefault
    /\ InitLoopDefault /\ InitFpsDefault

(* The application.  Pointer and impact handlers call addRipple, the render *)
(* loop runs the useFrame callback on every animation frame, and time      *)
(* passes.  clearExpiredRipples has no caller in the repository.            *)
Next ==
    \/ \E in \in RippleInputs : AddRipple(in.position, in.strength)
    \/ Frame
    \/ Tick

Spec == Init /\ [][Next]_vars

FairSpec == Init /\ [][Next]_vars /\ WF_vars(Frame) /\ WF_vars(Tick)

(* The store's ripple operations, called in any order by any client. *)
StoreNext ==
    \/ \E in \in RippleInputs : AddRipple(in.position, in.strength)
    \/ ClearExpiredRipples
    \/ Tick

StoreSpec == Init /\ [][StoreNext]_vars

SpringInit ==
    /\ InitRipples /\ InitSpring /\ InitVectorDefault /\ InitParticlesDefault
    /\ InitLoopDefault /\ InitFpsDefault

SpringNext ==
    \/ \E v \in TargetValues : SpringSetTarget(v)
    \/ \E d \in DeltaTimes : SpringUpdate(d)

SpringSpec == SpringInit /\ [][SpringNext]_vars

(* A Spring constructed with any SpringConfig object a caller can pass. *)
ConstructInit ==
    /\ InitRipples
    /\ \E v \in InitialValues : \E c \in ConstructorConfigs : InitSpringWith(v, c)
    /\ InitVectorDefault
    /\ InitParticlesDefault
    /\ InitLoopDefault /\ InitFpsDefault

ConstructSpec == ConstructInit /\ [][SpringNext]_vars

(* A Spring whose target is set once and which is then only updated. *)
SetTargetOnce(value) == nOps = 0 /\ SpringSetTarget(value)

UpdateAfterTarget(deltaTime) == nOps > 0 /\ SpringUpdate(deltaTime)

FixedTargetInit ==
    /\ InitRipples
    /\ \E v \in InitialValues : \E c \in Presets : InitSpringWith(v, c)
    /\ InitVectorDefault
    /\ InitParticlesDefault
    /\ InitLoopDefault /\ InitFpsDefault

FixedTargetNext ==
    \/ \E v \in TargetValues : SetTargetOnce(v)
    \/ \E d \in NonNegativeDeltaTimes : UpdateAfterTarget(d)

FixedTargetSpec == FixedTargetInit /\ [][FixedTargetNext]_vars

(* The same, updated by a render loop: every animation frame calls         *)
(* update(delta * 1000) with the delta of a 60 fps frame, for ever.         *)
SettleFrame ==
    /\ nOps > 0
    /\ DoUpdate(FrameMs)
    /\ frameParity' = 1 - frameParity
    /\ UNCHANGED nOps
    /\ UNCHANGED <<now, ripples, nAdded, uTime, uRipples, uRippleStrengths,
                   uRippleTimes, frameNow, packed>>
    /\ UNCHANGED <<vectorVars, particleVars, loopVars, fpsVars>>

SettleInit ==
    /\ InitRipples
    /\ \E v \in InitialValues : \E c \in SettleConfigs : InitSpringWith(v, c)
    /\ InitVectorDefault
    /\ InitParticlesDefault
    /\ InitLoopDefault /\ InitFpsDefault

SettleNext ==
    \/ \E v \in SettleTargets : SetTargetOnce(v)
    \/ SettleFrame

SettleSpec == SettleInit /\ [][SettleNext]_vars /\ WF_vars(SettleNext)

(* Two Spring3D objects given the same calls, except for the X components. *)
VectorInit ==
    /\ InitRipples /\ InitSpringDefault /\ InitVector /\ InitParticlesDefault
    /\ InitLoopDefault /\ InitFpsDefault

VectorNext ==
    \/ \E t \in VecTargets : \E x \in TwinX : VecSetTarget(t, x)
    \/ \E d \in VecDeltaTimes : VecUpdate(d)
    \/ \E th \in VecThresholds : VecIsAtRest(th)

VectorSpec == VectorInit /\ [][VectorNext]_vars

(* A ParticlePhysicsSystem under any sequence of calls of its methods. *)
ParticleInit ==
    /\ InitRipples /\ InitSpringDefault /\ InitVectorDefault /\ InitParticles
    /\ InitLoopDefault /\ InitFpsDefault

ParticleNext ==
    \/ \E d \in PsDeltaTimes : PsUpdate(d)
    \/ \E seed \in Seeds : PsReset(seed)
    \/ \E f \in ForceFields : PsAddForceField(f)
    \/ PsClearForceFields
    \/ \E t \in TargetArrays : PsSetTargetPositions(t)
    \/ \E pt \in SplashPoints : \E n \in SplashCounts : PsCreateSplash(pt, n)

ParticleSpec == ParticleInit /\ [][ParticleNext]_vars

(* A loop made by createAnimationLoop: its owner calls start and stop, the  *)
(* display begins frames, and each frame runs the loop's pending callback,  *)
(* whose user callback may itself call start and stop.                      *)
LoopInit ==
    /\ InitRipples /\ InitSpringDefault /\ InitVectorDefault /\ InitParticlesDefault
    /\ InitLoop /\ InitFpsDefault

LoopNext ==
    \/ LoopStart
    \/ LoopStop
    \/ \E elapsed \in DisplayFrames : LoopTick(elapsed)
    \/ \E lag \in TimestampLags : \E body \in CallbackBodies : LoopFrame(lag, body)

LoopSpec == LoopInit /\ [][LoopNext]_vars

(* App on a page: the user changes the performance mode in the settings    *)
(* panel, React commits, the display begins frames and runs the pending    *)
(* `animate` callbacks, App unmounts.                                       *)
FpsInit ==
    /\ InitRipples /\ InitSpringDefault /\ InitVectorDefault /\ InitParticlesDefault
    /\ InitLoopDefault /\ InitFps

FpsNext ==
    \/ \E mode \in Modes : UpdateSettings(mode)
    \/ Commit
    \/ Unmount
    \/ \E elapsed \in FrameTimes : FpsTick(elapsed)
    \/ Animate

FpsSpec == FpsInit /\ [][FpsNext]_vars

----------------------------------------------------------------------------
(* Properties *)

Range(s) == { s[i] : i \in DOMAIN s }

Ids(s) == [i \in DOMAIN s |-> s[i].id]

Age(r, t) == t - r.time

\* C1: in every reachable state of the store, under any interleaving of
\* addRipple and clearExpiredRipples, ripples holds at most 10 entries.
C1_AtMostTen == Len(ripples) <= 10

C1_Witness == Len(ripples) = 10 /\ nAdded > 10

\* C2: after n addRipple calls with no expiry in between the store holds
\* exactly the min(n, 10) most recently created ripples in creation order, a
\* frame packs none of the evicted ones, and an add that overflows the capacity
\* removes a ripple with the earliest creation time.
C2_KeepsMostRecent ==
    LET n == nAdded
        m == Min(n, 10)
    IN  /\ Ids(ripples) = [i \in 1..m |-> n - m + i]
        /\ \A r \in Range(Packed(ripples, now)) : r.id > n - m

C2_EvictsOldest ==
    (nAdded' = nAdded + 1 /\ Len(ripples) = 10) =>
        /\ ripples[1] \notin Range(ripples')
        /\ \A r \in Range(ripples) : ripples[1].time <= r.time
        /\ \A i \in 2..10 : ripples[i] \in Range(ripples')

C2_MostRecentKept == [](C2_KeepsMostRecent) /\ [][C2_EvictsOldest]_vars

C2_Witness ==
    /\ nAdded = 11
    /\ Ids(ripples) = [i \in 1..10 |-> i + 1]
    /\ ripples[1].time < ripples[10].time

\* C3: after every frame's packing step each of the three ripple uniform
\* arrays has exactly 10 slots, and every slot at or beyond the number of
\* ripples packed that frame holds strength 0, position (0,0) and time 0.
C3_FixedLengthZeroPadded ==
    /\ DOMAIN uRipples = 1..10
    /\ DOMAIN uRippleStrengths = 1..10
    /\ DOMAIN uRippleTimes = 1..10
    /\ Len(packed) <= 10
    /\ \A i \in 1..10 :
        i > Len(packed) =>
            /\ uRippleStrengths[i] = 0
            /\ uRipples[i] = <<0, 0>>
            /\ uRippleTimes[i] = 0

\* a frame that packed some but not all slots, after an earlier ripple has
\* been evicted from the store
C3_Witness ==
    /\ Len(packed) = 3
    /\ uRippleStrengths[3] > 0
    /\ uRippleStrengths[4] = 0
    /\ nAdded > 10

\* C4: the packed slots are most-recent-first: slot 0 holds the most recently
\* created packed ripple, creation times are non-increasing over the occupied
\* slots, and the occupied slots are a contiguous prefix followed only by
\* zero-strength slots.
C4_MostRecentFirst ==
    /\ \A i \in 1..Len(packed) :
        /\ uRippleStrengths[i] = packed[i].strength
        /\ uRipples[i] = packed[i].position
        /\ uRippleTimes[i] = MsToSeconds(packed[i].time)
        /\ uRippleStrengths[i] > 0
        /\ packed[1].id >= packed[i].id
    /\ \A i, j \in 1..Len(packed) :
        i < j => /\ uRippleTimes[i] >= uRippleTimes[j]
                 /\ packed[i].time >= packed[j].time
                 /\ packed[i].id > packed[j].id
    /\ \A i \in 1..10 : i > Len(packed) => uRippleStrengths[i] = 0

C4_Witness ==
    /\ Len(packed) >= 3
    /\ packed[1].time > packed[2].time
    /\ packed[2].time > packed[3].time

\* C5: a packed ripple whose age at the frame is 5 seconds or more adds no
\* term to the displacement sum evaluated from the uniforms.
C5_ExpiredContributesZero ==
    \A i \in 1..Len(packed) :
        Age(packed[i], frameNow) >= 5000 => i \notin ContributingSlots

C5_Witness ==
    \E i \in 1..Len(packed) :
        /\ Age(packed[i], frameNow) >= 5000
        /\ uRippleStrengths[i] > FScale \div 100
        /\ i \notin ContributingSlots

\* C6: the age the evaluator uses for a packed ripple equals now - createdAt
\* (uTime and the packed time are on one clock, in one unit), so a ripple
\* created t seconds ago, 0 < t < 5, passes the evaluator's age gate.
C6_AgeOnCommonTimeBase ==
    \A i \in 1..Len(packed) :
        /\ rippleAge(i) = MsToSeconds(Age(packed[i], frameNow))
        /\ (0 < Age(packed[i], frameNow) /\ Age(packed[i], frameNow) < 5000)
              => AgeGate(rippleAge(i))

\* C7: clearExpiredRipples called at time now removes exactly the ripples with
\* now - createdAt >= 5000 and keeps every younger one, unchanged and in the
\* same order; it never adds a ripple.
C7_ClearResult ==
    LET res == Filter(ripples, now)
    IN  /\ res = SelectSeq(ripples, LAMBDA r : Age(r, now) < 5000)
        /\ \A r \in Range(ripples) : r \in Range(res) <=> ~(Age(r, now) >= 5000)
        /\ Range(res) \subseteq Range(ripples)
        /\ \A i, j \in DOMAIN res : i < j => res[i].id < res[j].id

C7_ClearStep ==
    (nAdded' = nAdded /\ ripples' # ripples) =>
        /\ ripples' = SelectSeq(ripples, LAMBDA r : Age(r, now) < 5000)
        /\ Len(ripples') < Len(ripples)

C7_ClearRemovesExactlyExpired == [](C7_ClearResult) /\ [][C7_ClearStep]_vars

\* an expired ripple has been removed and a younger one was kept
C7_Witness ==
    /\ Len(ripples) > 0
    /\ Len(ripples) < Min(nAdded, 10)
    /\ \A r \in Range(ripples) : Age(r, now) < 5000
    /\ \E r \in Range(ripples) : Age(r, now) > 0

\* C8: while the frame loop keeps running, every ripple whose age has exceeded
\* 5 seconds is eventually removed from the store, even if no ripple is added.
C8_StaleEventuallyRemoved ==
    \A k \in 1..MaxAdds :
        (\E r \in Range(ripples) : r.id = k /\ Age(r, now) > 5000)
            ~> (\A r \in Range(ripples) : r.id # k)

\* C9: Spring.setTarget(value) changes only the target: position, velocity
\* and the configuration are the same after the call as before it.
C9_SetTargetOnlyTarget ==
    lastOp[1] = "setTarget" =>
        /\ spring.position = prevSpring.position
        /\ spring.velocity = prevSpring.velocity
        /\ spring.target = lastOp[2]
        /\ spring = [prevSpring EXCEPT !.target = lastOp[2]]

C9_Witness ==
    /\ lastOp[1] = "setTarget"
    /\ prevSpring.velocity # 0
    /\ prevSpring.position # prevSpring.target
    /\ spring.target # prevSpring.target

\* C10: Spring.update clamps its step to 64 ms: for deltaTime >= 64 the
\* position, velocity and return value are those of update(64); for deltaTime
\* in [0, 64] the step is deltaTime / 1000 seconds.
C10_StepClamped ==
    lastOp[1] = "update" =>
        /\ lastOp[2] >= 64 =>
              /\ spring = UpdateResult(prevSpring, 64)
              /\ ret = UpdateResult(prevSpring, 64).position
              /\ lastDt = Round(64 * DtScale, 1000)
        /\ (0 <= lastOp[2] /\ lastOp[2] <= 64) =>
              lastDt = Round(lastOp[2] * DtScale, 1000)

C10_Witness ==
    /\ lastOp = <<"update", 1000>>
    /\ spring.position # prevSpring.position
    /\ spring.velocity # prevSpring.velocity

\* C11: no Spring with a mass of zero or less exists, because the constructor
\* rejects such a configuration; so update never divides by a mass that is
\* not positive and never produces NaN or an infinity.
C11_MassPositive ==
    /\ spring.mass > 0
    /\ lastOp[1] = "update" => (prevSpring.mass > 0 /\ spring.finite)

\* the threshold of the settling scenario: isAtRest(0.01)
RestEps == SScale \div 100

ConfigOf(s) == [tension |-> s.tension, friction |-> s.friction, mass |-> s.mass]

\* C12 as stated: for every configuration with mass > 0, tension >= 0 and
\* friction >= 0, a Spring whose target was set once and which then receives
\* update(16) on every frame eventually satisfies isAtRest.
C12_EveryConfigSettles ==
    (nOps = 1 /\ spring.mass > 0 /\ spring.tension >= 0 /\ spring.friction >= 0)
        ~> IsAtRest(spring, RestEps)

\* C12, amended: for the snappy, smooth and camera presets, a Spring whose
\* target was set once and which then receives update(16) on every frame
\* eventually satisfies isAtRest(0.01), from either initial value.
C12_PresetsSettle ==
    (nOps = 1 /\ ConfigOf(spring) \in {snappy, smooth, camera})
        ~> IsAtRest(spring, RestEps)

\* a preset spring has travelled from its initial value to rest at the target
C12_Witness ==
    /\ nOps = 1
    /\ lastOp[1] = "update"
    /\ ConfigOf(spring) \in {snappy, smooth, camera}
    /\ start.position # start.target
    /\ ~IsAtRest(start, RestEps)
    /\ IsAtRest(spring, RestEps)

\* C13: in two Spring3D runs that receive the same setTarget and update
\* calls and differ only in the X components of the initial value and of
\* the targets, the Y and Z springs are identical at every moment.
C13_AxesIndependent ==
    /\ springs[2] = twin[2]
    /\ springs[3] = twin[3]

\* the X axes differ while Y and Z are in motion
C13_Witness ==
    /\ vecOp[1] = "update"
    /\ springs[1].position # twin[1].position
    /\ springs[1].velocity # twin[1].velocity
    /\ springs[2].velocity # 0
    /\ springs[3].velocity # 0

C14_Result ==
    vecOp[1] = "isAtRest" =>
        /\ \A k \in Axes :
              axisRest[k] = (/\ springs[k].finite
                             /\ Abs(springs[k].velocity) < vecOp[2]
                             /\ Abs(springs[k].position - springs[k].target) < vecOp[2])
        /\ vecRet = (axisRest[1] /\ axisRest[2] /\ axisRest[3])

C14_Step ==
    (nVecOps' # nVecOps /\ vecOp'[1] = "isAtRest") =>
        (springs' = springs /\ twin' = twin)

\* C14: Spring.isAtRest(threshold) is true exactly when |velocity| < threshold
\* and |position - target| < threshold, both strictly; the call changes no
\* field; Spring3D.isAtRest is true exactly when all three axes are at rest.
C14_IsAtRestExact == [](C14_Result) /\ [][C14_Step]_vars

\* one axis is at rest and another, exactly on the threshold, is not
C14_Witness ==
    /\ vecOp[1] = "isAtRest"
    /\ ~vecRet
    /\ \E k \in Axes : axisRest[k]
    /\ \E k \in Axes :
          /\ ~axisRest[k]
          /\ springs[k].velocity = 0
          /\ Abs(springs[k].position - springs[k].target) = vecOp[2]

\* C15: under any sequence of update, reset, addForceField, clearForceFields,
\* setTargetPositions and createSplash calls, getCount() is the count given
\* at construction, and the position, velocity, color, size and lifetime
\* arrays are the array objects the constructor made, of lengths 3 count,
\* 3 count, 3 count, count and count.
C15_ArraysFixed ==
    /\ GetCount(ps) = ps.config.count
    /\ GetCount(ps) = GetCount(prevPs)
    /\ ps.refs = ConstructedRefs
    /\ Len(ps.positions) = 3 * GetCount(ps)
    /\ Len(ps.velocities) = 3 * GetCount(ps)
    /\ Len(ps.colors) = 3 * GetCount(ps)
    /\ Len(ps.sizes) = GetCount(ps)
    /\ Len(ps.lifetimes) = GetCount(ps)
    /\ psOp[1] = "createSplash" =>
          \A name \in DOMAIN ps.refs : psRet.ref # ps.refs[name]

\* reset has rewritten the arrays after other calls
C15_Witness ==
    /\ psOp[1] = "reset"
    /\ nPsOps = MaxPsOps
    /\ ps.positions # prevPs.positions
    /\ ps.velocities # prevPs.velocities
    /\ ps.allocated > 5

\* C16: setTargetPositions with an array whose length is not 3 count leaves
\* the stored targets and every other field as they were; an array of length
\* exactly 3 count replaces the targets and changes nothing else.
C16_TargetsLengthChecked ==
    psOp[1] = "setTargetPositions" =>
        IF Len(psOp[2]) # prevPs.count * 3
        THEN ps = prevPs
        ELSE ps = [prevPs EXCEPT !.targetPositions = psOp[2], !.hasTargets = TRUE]

\* stored targets survived a call with an array of the wrong length
C16_Witness ==
    /\ psOp[1] = "setTargetPositions"
    /\ Len(psOp[2]) # ps.count * 3
    /\ ps.hasTargets
    /\ ps.targetPositions # psOp[2]

\* the fields and particles of the last update
FieldsOf(p) == 1..Len(p.forceFields)

Delta(p, i, j) == Sub3(p.forceFields[j].position, Triple(p.positions, i))

\* no gravity, drag or magnetic pull acts
FieldsOnly(p) ==
    /\ p.config.gravity = Zero3
    /\ p.config.dragCoefficient = 0
    /\ ~(p.hasTargets /\ p.config.magneticStrength > 0)

\* C17: in update, a force field of any kind adds exactly zero force to a
\* particle whose distance from the field centre is at least the radius (so
\* with no other force its velocity is unchanged); inside, the attract/repel
\* scale is strength * (1 - dist / radius), not negative for strength >= 0.
C17_ZeroOutsideRadius ==
    psOp[1] = "update" =>
        \A i \in Particles(prevPs) :
            /\ \A j \in FieldsOf(prevPs) :
                  LET field == prevPs.forceFields[j]
                      d == Delta(prevPs, i, j)
                      e == psForces[i][j]
                  IN  /\ NormSq(d) >= field.radius * field.radius =>
                            (~e.inside /\ e.force = Zero3)
                      /\ (e.inside /\ field.type \in {"attract", "repel"}) =>
                            /\ e.dist = Sqrt(NormSq(d) + EpsSq)
                            /\ e.strength * field.radius + field.radius \div 2
                                 >= field.strength * (field.radius - e.dist)
                            /\ e.strength * field.radius - field.radius \div 2
                                 <= field.strength * (field.radius - e.dist)
                            /\ field.strength >= 0 => e.strength >= 0
            /\ ( /\ FieldsOnly(prevPs)
                 /\ \A j \in FieldsOf(prevPs) :
                       NormSq(Delta(prevPs, i, j)) >=
                           prevPs.forceFields[j].radius * prevPs.forceFields[j].radius )
               => Triple(ps.velocities, i) = Triple(prevPs.velocities, i)

\* one particle sits exactly on the radius of a field, another is inside one
C17_Witness ==
    /\ psOp[1] = "update"
    /\ FieldsOnly(prevPs)
    /\ \E i \in Particles(prevPs) : \E j \in FieldsOf(prevPs) :
          /\ NormSq(Delta(prevPs, i, j)) =
                prevPs.forceFields[j].radius * prevPs.forceFields[j].radius
          /\ Triple(ps.velocities, i) = Triple(prevPs.velocities, i)
    /\ \E i \in Particles(prevPs) : \E j \in FieldsOf(prevPs) :
          /\ psForces[i][j].inside
          /\ psForces[i][j].strength > 0
          /\ psForces[i][j].force # Zero3

\* C18: for a repel field with strength s > 0, the outward force on a
\* particle does not decrease when the particle is closer to the centre, and
\* its magnitude never exceeds s, at distance 0 included.
C18_RepelLargestAtCentre ==
    psOp[1] = "update" =>
        \A j \in FieldsOf(prevPs) :
            LET field == prevPs.forceFields[j]
            IN  (field.type = "repel" /\ field.strength > 0) =>
                    \A i \in Particles(prevPs) :
                        /\ NormSq(psForces[i][j].force) <= field.strength * field.strength
                        /\ \A k \in Particles(prevPs) :
                              NormSq(Delta(prevPs, i, j)) <= NormSq(Delta(prevPs, k, j))
                                  => NormSq(psForces[i][j].force) >= NormSq(psForces[k][j].force)

\* C19: update(deltaTime), with dt = min(deltaTime / 1000, 0.064), sets
\* velocity' = velocity + ((-tension (position - target) - friction velocity)
\* / mass) dt, then position' = position + velocity' dt, leaves target,
\* tension, friction and mass as they were, and returns position'.
C19_SemiImplicitEuler ==
    lastOp[1] = "update" =>
        LET dt == IF lastOp[2] < 64 THEN lastOp[2] ELSE 64
            force == (0 - prevSpring.tension) * (prevSpring.position - prevSpring.target)
                        - prevSpring.friction * prevSpring.velocity
            acceleration == MulDiv(force, MassScale, prevSpring.mass)
            velocity == prevSpring.velocity + MulDiv(acceleration, dt, 1000)
            position == prevSpring.position + MulDiv(velocity, dt, 1000)
        IN  /\ spring.velocity = velocity
            /\ spring.position = position
            /\ ret = position
            /\ spring.target = prevSpring.target
            /\ spring.tension = prevSpring.tension
            /\ spring.friction = prevSpring.friction
            /\ spring.mass = prevSpring.mass

\* an update of a moving, displaced spring
C19_Witness ==
    /\ lastOp[1] = "update"
    /\ lastOp[2] > 0
    /\ prevSpring.velocity # 0
    /\ prevSpring.position # prevSpring.target
    /\ spring.velocity # prevSpring.velocity
    /\ spring.position # prevSpring.position

\* C20: for every preset, after the target is set, under any sequence of
\* update(deltaTime) calls with deltaTime >= 0, |position - target| never
\* exceeds 10 times the value it had when the target was set.
C20_DisplacementBounded ==
    nOps > 0 =>
        Abs(spring.position - spring.target) <= 10 * Abs(start.position - start.target)

\* C21: update clamps its step to 0.033 s: for deltaTime >= 0.033 the
\* positions and velocities after update(deltaTime) are those of update(0.033).
C21_ParticleStepClamped ==
    (psOp[1] = "update" /\ psOp[2] >= 33) =>
        /\ ps.positions = PsUpdateResult(prevPs, 33).positions
        /\ ps.velocities = PsUpdateResult(prevPs, 33).velocities

\* a long frame has moved the particles
C21_Witness ==
    /\ psOp[1] = "update"
    /\ psOp[2] = 100
    /\ ps.positions # prevPs.positions
    /\ ps.velocities # prevPs.velocities

Dot3(a, b) == a[1] * b[1] + a[2] * b[2] + a[3] * b[3]

\* C22: the force a vortex field adds to a particle inside it is
\* perpendicular to the radial vector and its magnitude is at most
\* strength * (1 - dist / radius) (both up to the rounding of the grid).
C22_VortexTangentialScaled ==
    psOp[1] = "update" =>
        \A i \in Particles(prevPs) : \A j \in FieldsOf(prevPs) :
            (prevPs.forceFields[j].type = "vortex" /\ psForces[i][j].inside) =>
                LET d == Delta(prevPs, i, j)
                    e == psForces[i][j]
                IN  /\ 2 * Abs(Dot3(e.force, d)) <= Abs(d[1]) + Abs(d[2]) + Abs(d[3])
                    /\ NormSq(e.force) <= (e.strength + 1) * (e.strength + 1)

\* C23: the magnetic pull on a particle is applied only when targets are set
\* and magneticStrength > 0; it then points toward the particle's target, its
\* magnitude is at most magneticStrength, and it is zero when the particle is
\* at its target.  With no targets, update does not depend on magneticStrength.
\* (The magnitude is compared up to the rounding of the components to the grid.)
C23_MagneticPull ==
    psOp[1] = "update" =>
        /\ \A i \in Particles(prevPs) :
              LET strength == prevPs.config.magneticStrength
                  f == psMagnet[i]
              IN  IF prevPs.hasTargets /\ strength > 0
                  THEN LET d == Sub3(Triple(prevPs.targetPositions, i),
                                     Triple(prevPs.positions, i))
                       IN  /\ NormSq(f) <= (strength + 1) * (strength + 1)
                           /\ \A k \in 1..3 : f[k] * d[k] >= 0 /\ (d[k] = 0 => f[k] = 0)
                           /\ d = Zero3 => f = Zero3
                  ELSE f = Zero3
        /\ ~prevPs.hasTargets =>
              ps = [PsUpdateResult([prevPs EXCEPT !.config.magneticStrength = 0], psOp[2])
                       EXCEPT !.config = prevPs.config]

\* one particle is at its target and not pulled, another is pulled
C23_Witness ==
    /\ psOp[1] = "update"
    /\ prevPs.hasTargets
    /\ prevPs.config.magneticStrength > 0
    /\ \E i \in Particles(prevPs) :
          /\ Triple(prevPs.targetPositions, i) = Triple(prevPs.positions, i)
          /\ psMagnet[i] = Zero3
    /\ \E i \in Particles(prevPs) : psMagnet[i] # Zero3

\* C24: the frame callback puts a stored ripple into a slot only if its age
\* is below the 5000 ms ripple lifetime: no slot with a non-zero strength
\* holds a ripple aged 5 seconds or more.
C24_PackedWithinLifetime ==
    \A i \in 1..Len(packed) :
        uRippleStrengths[i] # 0 => Age(packed[i], frameNow) < ExpiryMs

OthersChanged(p, i) ==
    [p EXCEPT
       !.positions = [n \in DOMAIN @ |-> IF (n + 2) \div 3 = i THEN @[n] ELSE @[n] + 700],
       !.velocities = [n \in DOMAIN @ |-> IF (n + 2) \div 3 = i THEN @[n] ELSE @[n] - 90],
       !.targetPositions = [n \in DOMAIN @ |-> IF (n + 2) \div 3 = i THEN @[n] ELSE @[n] - 400]]

\* C26: in update the new position and velocity of particle i are the same
\* in a second run that differs only in the state and targets of the other
\* particles.
C26_ParticlesIndependent ==
    psOp[1] = "update" =>
        \A i \in Particles(prevPs) :
            LET other == PsUpdateResult(OthersChanged(prevPs, i), psOp[2])
            IN  /\ Triple(other.positions, i) = Triple(ps.positions, i)
                /\ Triple(other.velocities, i) = Triple(ps.velocities, i)

\* two particles under drag, fields and targets; the second run moves the
\* other particle elsewhere
C26_Witness ==
    /\ psOp[1] = "update"
    /\ prevPs.count = 2
    /\ prevPs.config.dragCoefficient > 0
    /\ prevPs.hasTargets
    /\ prevPs.forceFields # <<>>
    /\ prevPs.velocities # ps.velocities
    /\ Triple(PsUpdateResult(OthersChanged(prevPs, 2), psOp[2]).velocities, 1)
          # Triple(PsUpdateResult(OthersChanged(prevPs, 1), psOp[2]).velocities, 1)

\* the places <<cell, slot>> of the grid that hold particle i
GridPlaces(grid, i) ==
    { pl \in { <<c, n>> : c \in DOMAIN grid, n \in 1..ps.count } :
         pl[2] <= Len(grid[pl[1]].cell) /\ grid[pl[1]].cell[pl[2]] = i }

\* C27: after update every particle index is in exactly one cell, once; the
\* key of its cell is the floor of its position divided by gridSize; no cell
\* is empty; cells have distinct keys; nothing of an earlier frame remains.
C27_GridPartition ==
    psOp[1] = "update" =>
        /\ \A i \in Particles(ps) : Cardinality(GridPlaces(ps.grid, i)) = 1
        /\ \A c \in DOMAIN ps.grid :
              /\ ps.grid[c].cell # <<>>
              /\ \A n \in DOMAIN ps.grid[c].cell :
                    /\ ps.grid[c].cell[n] \in Particles(ps)
                    /\ \A k \in 1..3 :
                          LET x == Triple(ps.positions, ps.grid[c].cell[n])[k]
                              g == ps.grid[c].key[k]
                          IN  g * GridSize <= x /\ x < (g + 1) * GridSize
              /\ \A c2 \in DOMAIN ps.grid : ps.grid[c2].key = ps.grid[c].key => c2 = c

\* a second update, with a particle at a negative coordinate, has replaced
\* the cells of the first
C27_Witness ==
    /\ psOp[1] = "update"
    /\ ps.count = 2
    /\ prevPs.grid # <<>>
    /\ prevPs.grid # ps.grid
    /\ Len(ps.grid) = 2
    /\ \E n \in DOMAIN ps.positions : ps.positions[n] < 0

\* velocity of particle i after an update in which only gravity and drag act
FreeVelocity(p, i, deltaTime) ==
    LET v == Triple(p.velocities, i)
        f == Sub3(p.config.gravity, Scale3(v, p.config.dragCoefficient, DragScale))
    IN  Add3(v, Scale3(f, Min(deltaTime, 33), 1000))

\* C28: after reset() the targets are absent and the force-field list is
\* empty, so the next update applies only gravity and drag, whatever
\* addForceField and setTargetPositions calls came before; clearForceFields()
\* empties the force-field list and changes nothing else.
C28_ResetFreeFloating ==
    /\ psOp[1] = "reset" =>
          /\ ~ps.hasTargets
          /\ ps.targetPositions = <<>>
          /\ ps.forceFields = <<>>
          /\ \A d \in PsDeltaTimes : \A i \in Particles(ps) :
                Triple(PsUpdateResult(ps, d).velocities, i) = FreeVelocity(ps, i, d)
    /\ psOp[1] = "clearForceFields" =>
          /\ ps.forceFields = <<>>
          /\ ps = [prevPs EXCEPT !.forceFields = <<>>]

\* a reset after targets and force fields were set, under a magnetic config
C28_Witness ==
    /\ psOp[1] = "reset"
    /\ prevPs.hasTargets
    /\ prevPs.forceFields # <<>>
    /\ prevPs.config.magneticStrength > 0
    /\ ps.config.dragCoefficient > 0

\* C29: for a loop made by createAnimationLoop, under any interleaving of
\* start(), stop() and frames (start and stop called from the callback
\* included), at most one animation-frame request is ever pending, none is
\* pending when a stop() has returned, the callback is never invoked between
\* a stop() and the next start(), and it is invoked only with
\* deltaTime >= 1000 / fps.
C29_LoopSingleRequest ==
    /\ Cardinality(loop.pending) <= 1
    /\ loop.maxPending <= 1
    /\ loop.afterStop = {}
    /\ loop.stopped => loop.pending = {}
    /\ callback.invoked =>
          /\ ~callback.stopped
          /\ callback.deltaTime >= loop.interval

\* a frame has invoked the callback, which stopped and restarted the loop,
\* after an earlier stop() and start() by the owner
C29_Witness ==
    /\ loopOp = "frame"
    /\ callback.invoked
    /\ callback.body = <<"stop", "start">>
    /\ loop.animationFrameId # 0
    /\ loop.pending = {loop.animationFrameId}
    /\ loop.nextId >= 5

\* the FPS loops that have a callback pending
RunningLoops == { r.loopNo : r \in animateFrames.pending }

\* C30: the FPS monitoring loop App starts in 'high' mode stops when the mode
\* leaves 'high' or App unmounts: once the effect's cleanup has run, that
\* loop never calls fpsMonitor.update again, and at most one such loop runs
\* at any time.
C30_MonitorLoopStops ==
    /\ updatedBy # 0 => updatedBy \notin cleanedUp
    /\ Cardinality(RunningLoops) <= 1

====
